---- MODULE Spec2Model ----
(***************************************************************************)
(* Model of the Translate AI helper (trans_helper_streamlitapp_git.py):    *)
(* the line partitioner process_text_file, the sequential translation loop *)
(* get_gpt_response and the Streamlit script main with its session state.  *)
(* Text is a sequence of characters; a Python Optional is a sequence of    *)
(* length 0 (None) or 1.                                                    *)
(***************************************************************************)
EXTENDS Integers, Sequences, FiniteSets, TLC

\* ------------------------------------------------------------------ bounds
MaxTextLen == 5       \* longest file text drawn for the partitioner
MaxRespLen == 9       \* longest raw completion response drawn for the cleaner
MaxParts == 3         \* largest slider value explored (the slider allows 10)

\* -------------------------------------------------------------- characters
NL == "LF"            \* the newline character
BT == "BT"           \* the backtick character
LineChars == {"a", "b", NL}       \* characters of the files given to the partitioner
FenceChars == {"a", BT, NL}       \* characters of the raw completion responses

None == << >>
Some(x) == << x >>

\* All texts over the characters cs of length at most n.
Texts(cs, n) == UNION {[1..k -> cs] : k \in 0..n}

\* str.encode(utf-8) on the (ASCII) characters of the model.
Ord(c) == CASE c = "a" -> 97 [] c = "b" -> 98 [] c = BT -> 96 [] c = NL -> 10 [] OTHER -> 63
Utf8Encode(s) == [i \in 1..Len(s) |-> Ord(s[i])]

\* ------------------------------------------------------ process_text_file
\* str.splitlines(): lines end at a newline; a trailing newline opens no line.
RECURSIVE SplitLinesFrom(_, _)
SplitLinesFrom(text, cur) ==
    IF text = << >> THEN (IF cur = << >> THEN << >> ELSE << cur >>)
    ELSE IF Head(text) = NL THEN << cur >> \o SplitLinesFrom(Tail(text), << >>)
    ELSE SplitLinesFrom(Tail(text), Append(cur, Head(text)))
SplitLines(text) == SplitLinesFrom(text, << >>)

\* Python floor division and modulo (sign of the divisor), divisor # 0.
PyFloorDiv(a, b) ==
    IF b > 0 THEN (IF a >= 0 THEN a \div b ELSE -(((-a) + b - 1) \div b))
    ELSE (IF a <= 0 THEN (-a) \div (-b) ELSE -((a + (-b) - 1) \div (-b)))
PyMod(a, b) == a - b * PyFloorDiv(a, b)

\* list[start:end] for 0 <= start: indices are clamped to the list.
PySlice(l, start, end) ==
    LET e == IF end > Len(l) THEN Len(l) ELSE end
    IN  IF start >= e THEN << >> ELSE SubSeq(l, start + 1, e)

\* end = start + avg_length + (1 if i < remainder else 0)
SegEndOffByOne(start, i, avg_length, remainder) ==
    start + avg_length + (IF i <= remainder THEN 1 ELSE 0)
SegEnd(start, i, avg_length, remainder) ==
    start + avg_length + (IF i < remainder THEN 1 ELSE 0)

\* start = end
NextStartSkip(end) == end + 1
NextStart(end) == end

\* for i in range(num_parts): result.append(texts_list[start:end]); start = end
RECURSIVE SplitLoop(_, _, _, _, _, _)
SplitLoop(texts_list, num_parts, avg_length, remainder, i, start) ==
    IF i >= num_parts THEN << >>
    ELSE LET end == SegEnd(start, i, avg_length, remainder)
         IN  << PySlice(texts_list, start, end) >>
               \o SplitLoop(texts_list, num_parts, avg_length, remainder,
                            i + 1, NextStart(end))

\* the list `result` of line lists built by process_text_file (num_parts # 0)
SplitResult(text, n) ==
    LET texts_list == SplitLines(text)
        avg_length == PyFloorDiv(Len(texts_list), n)
        remainder == PyMod(Len(texts_list), n)
    IN  SplitLoop(texts_list, n, avg_length, remainder, 0, 0)

\* newline.join(part)
RECURSIVE JoinLines(_)
JoinLines(part) ==
    IF part = << >> THEN << >>
    ELSE IF Len(part) = 1 THEN part[1]
    ELSE part[1] \o << NL >> \o JoinLines(Tail(part))

JoinAll(res) == [i \in 1..Len(res) |-> JoinLines(res[i])]

\* --------------------------------------------------------- get_gpt_response
FENCE_OPEN == << BT, BT, BT, NL >>       \* three backticks, newline
FENCE_CLOSE == << NL, BT, BT, BT >>      \* newline, three backticks

\* str.replace(old, empty): every non-overlapping occurrence, left to right
RECURSIVE Remove(_, _)
Remove(s, old) ==
    IF Len(s) < Len(old) THEN s
    ELSE IF SubSeq(s, 1, Len(old)) = old
         THEN Remove(SubSeq(s, Len(old) + 1, Len(s)), old)
         ELSE << Head(s) >> \o Remove(Tail(s), old)

\* response.replace(FENCE_OPEN, empty).replace(FENCE_CLOSE, empty)
Clean(response) == Remove(Remove(response, FENCE_OPEN), FENCE_CLOSE)

\* translated += response + newline
AccumulatePrepend(acc, response) == Clean(response) \o << NL >> \o acc
AccumulateDropEmpty(acc, response) ==
    IF Clean(response) = << >> THEN acc ELSE acc \o Clean(response) \o << NL >>
Accumulate(acc, response) == acc \o Clean(response) \o << NL >>

\* what the completion service may answer for one segment: the segment
\* itself (an echoing stub), the segment inside the fence wrapper of the
\* prompt, or the segment with a fence line in front and inside
Wrapped(part) == FENCE_OPEN \o part \o FENCE_CLOSE
Responses(part) == {part, Wrapped(part), FENCE_OPEN \o Wrapped(part)}

\* ----------------------------------------------------------------- state
VARIABLES
    api_key,          \* openai.api_key, from st.secrets
    llm_model,        \* st.selectbox
    num_parts,        \* st.slider
    uploaded_file,    \* st.file_uploader: None or Some(text)
    translated_text,  \* st.session_state.translated_text: None or Some(text)
    cached_from,      \* the widget values of the run that stored translated_text
    pc,               \* position of the running script
    result,           \* process_text_file: the list of line lists
    split_texts,      \* process_text_file: the returned list of strings
    idx,              \* get_gpt_response: segments processed so far
    translated,       \* get_gpt_response: the accumulator
    log,              \* the invocations the completion service saw in this run
    download,         \* data of the st.download_button on the page, or None
    error             \* exception that ended the script run, or empty

vars == << api_key, llm_model, num_parts, uploaded_file, translated_text,
           cached_from, pc, result, split_texts, idx, translated, log,
           download, error >>

Models == {"gpt-4o-mini-2024-07-18", "chatgpt-4o-latest"}
SliderMin == 1

\* the files a user uploads in the session model
Files == { << >>,
           << "a", NL, "b" >>,
           << "a", NL, "b", NL, "a", NL >>,
           << BT, BT, BT, NL, "a" >> }

WidgetValues(file, n, m) == [file |-> file, num_parts |-> n, model |-> m]

\* --------------------------------------------------------------- main
\* if st.session_state.translated_text is None
NeedsTranslationAlways(tt) == TRUE
NeedsTranslation(tt) == tt = None

\* One script run up to the first completion call (or to its end).
RunMain(file, n, m) ==
    /\ error' = ""
    /\ download' = None
    /\ UNCHANGED << api_key, translated_text, cached_from >>
    /\ IF api_key # "" /\ file # None
       THEN /\ result' = SplitResult(file[1], n)
            /\ split_texts' = JoinAll(SplitResult(file[1], n))
            /\ IF NeedsTranslation(translated_text)
               THEN /\ pc' = "translating"
                    /\ idx' = 0
                    /\ translated' = << >>
                    /\ log' = << >>
               ELSE /\ pc' = "idle"
                    /\ UNCHANGED << idx, translated, log >>
       ELSE /\ pc' = "idle"
            /\ UNCHANGED << result, split_texts, idx, translated, log >>

SelectModel(m) ==
    /\ pc = "idle"
    /\ m # llm_model
    /\ llm_model' = m
    /\ UNCHANGED << num_parts, uploaded_file >>
    /\ RunMain(uploaded_file, num_parts, m)

SetNumParts(n) ==
    /\ pc = "idle"
    /\ n # num_parts
    /\ num_parts' = n
    /\ UNCHANGED << llm_model, uploaded_file >>
    /\ RunMain(uploaded_file, n, llm_model)

UploadFile(f) ==
    /\ pc = "idle"
    /\ uploaded_file # Some(f)
    /\ uploaded_file' = Some(f)
    /\ UNCHANGED << llm_model, num_parts >>
    /\ RunMain(Some(f), num_parts, llm_model)

RemoveFile ==
    /\ pc = "idle"
    /\ uploaded_file # None
    /\ uploaded_file' = None
    /\ UNCHANGED << llm_model, num_parts >>
    /\ RunMain(None, num_parts, llm_model)

\* a rerun with the widgets as they are (page load, click on the download button)
Rerun ==
    /\ pc = "idle"
    /\ UNCHANGED << llm_model, num_parts, uploaded_file >>
    /\ RunMain(uploaded_file, num_parts, llm_model)

\* ---------------------------------------------- get_gpt_response, stepwise
\* chat.invoke returns: clean the response and append it
Invoke(resp) ==
    /\ pc = "translating"
    /\ idx < Len(split_texts)
    /\ log' = Append(log, [seg |-> idx, text |-> split_texts[idx + 1],
                           ok |-> TRUE, content |-> resp])
    /\ translated' = Accumulate(translated, resp)
    /\ idx' = idx + 1
    /\ UNCHANGED << api_key, llm_model, num_parts, uploaded_file,
                    translated_text, cached_from, pc, result, split_texts,
                    download, error >>

\* the service answers the prompt built from the current segment
InvokeAnswers ==
    /\ pc = "translating"
    /\ idx < Len(split_texts)
    /\ \E resp \in Responses(split_texts[idx + 1]) : Invoke(resp)

\* chat.invoke raises: nothing catches it, the script run ends
InvokeFailsKeepsPartial ==
    /\ pc = "translating"
    /\ idx < Len(split_texts)
    /\ log' = Append(log, [seg |-> idx, text |-> split_texts[idx + 1],
                           ok |-> FALSE, content |-> << >>])
    /\ pc' = "idle"
    /\ error' = "ExternalServiceError"
    /\ translated_text' = Some(translated)
    /\ download' = Some(Utf8Encode(translated))
    /\ UNCHANGED << api_key, llm_model, num_parts, uploaded_file,
                    cached_from, result, split_texts, idx, translated >>
InvokeFails ==
    /\ pc = "translating"
    /\ idx < Len(split_texts)
    /\ log' = Append(log, [seg |-> idx, text |-> split_texts[idx + 1],
                           ok |-> FALSE, content |-> << >>])
    /\ pc' = "idle"
    /\ error' = "ExternalServiceError"
    /\ UNCHANGED << api_key, llm_model, num_parts, uploaded_file,
                    translated_text, cached_from, result, split_texts, idx,
                    translated, download >>

\* the loop is over: return translated; main stores it and offers the download
Return ==
    /\ pc = "translating"
    /\ idx = Len(split_texts)
    /\ translated_text' = Some(translated)
    /\ cached_from' = Some(WidgetValues(uploaded_file[1], num_parts, llm_model))
    /\ download' = Some(Utf8Encode(translated))
    /\ pc' = "idle"
    /\ UNCHANGED << api_key, llm_model, num_parts, uploaded_file, result,
                    split_texts, idx, translated, log, error >>

\* ------------------------------------------------- the session
Init ==
    /\ api_key \in {"", "sk"}
    /\ llm_model = "gpt-4o-mini-2024-07-18"
    /\ num_parts = SliderMin
    /\ uploaded_file = None
    /\ translated_text = None
    /\ cached_from = None
    /\ pc = "idle"
    /\ result = << >>
    /\ split_texts = << >>
    /\ idx = 0
    /\ translated = << >>
    /\ log = << >>
    /\ download = None
    /\ error = ""

Next ==
    \/ \E m \in Models : SelectModel(m)
    \/ \E n \in SliderMin..MaxParts : SetNumParts(n)
    \/ \E f \in Files : UploadFile(f)
    \/ RemoveFile
    \/ Rerun
    \/ InvokeAnswers
    \/ InvokeFails
    \/ Return

Spec == Init /\ [][Next]_vars

\* ------------------------------ process_text_file on its own, any num_parts
InitSplit ==
    /\ api_key = "sk"
    /\ llm_model = "gpt-4o-mini-2024-07-18"
    /\ num_parts \in (0 - MaxParts)..MaxParts
    /\ uploaded_file \in {Some(t) : t \in Texts(LineChars, MaxTextLen)}
    /\ translated_text = None
    /\ cached_from = None
    /\ pc = "call"
    /\ result = << >>
    /\ split_texts = << >>
    /\ idx = 0
    /\ translated = << >>
    /\ log = << >>
    /\ download = None
    /\ error = ""

\* the call returns the list of strings
ProcessTextFileReturns ==
    /\ pc = "call"
    /\ num_parts # 0
    /\ result' = SplitResult(uploaded_file[1], num_parts)
    /\ split_texts' = JoinAll(SplitResult(uploaded_file[1], num_parts))
    /\ pc' = "returned"
    /\ UNCHANGED << api_key, llm_model, num_parts, uploaded_file,
                    translated_text, cached_from, idx, translated, log,
                    download, error >>

\* len(texts_list) // 0 raises
ProcessTextFileRaises ==
    /\ pc = "call"
    /\ num_parts = 0
    /\ error' = "ZeroDivisionError"
    /\ pc' = "raised"
    /\ UNCHANGED << api_key, llm_model, num_parts, uploaded_file,
                    translated_text, cached_from, result, split_texts, idx,
                    translated, log, download >>

NextSplit == ProcessTextFileReturns \/ ProcessTextFileRaises

SpecSplit == InitSplit /\ [][NextSplit]_vars

\* ------------- get_gpt_response on a one-segment file, any bounded response
InitClean ==
    /\ api_key = "sk"
    /\ llm_model = "gpt-4o-mini-2024-07-18"
    /\ num_parts = SliderMin
    /\ uploaded_file = Some(<< "a" >>)
    /\ translated_text = None
    /\ cached_from = None
    /\ pc = "translating"
    /\ result = SplitResult(<< "a" >>, SliderMin)
    /\ split_texts = JoinAll(SplitResult(<< "a" >>, SliderMin))
    /\ idx = 0
    /\ translated = << >>
    /\ log = << >>
    /\ download = None
    /\ error = ""

InvokeAnswersAny ==
    /\ pc = "translating"
    /\ idx < Len(split_texts)
    /\ \E resp \in Texts(FenceChars, MaxRespLen) : Invoke(resp)

NextClean == InvokeAnswersAny \/ Return

SpecClean == InitClean /\ [][NextClean]_vars

\* ------------------------------------------------------------ properties
RECURSIVE Flatten(_)
Flatten(lists) == IF lists = << >> THEN << >> ELSE Head(lists) \o Flatten(Tail(lists))

RECURSIVE SumLen(_)
SumLen(lists) == IF lists = << >> THEN 0 ELSE Len(Head(lists)) + SumLen(Tail(lists))

\* every text of the list followed by one newline, in list order
RECURSIVE ConcatNL(_)
ConcatNL(texts) ==
    IF texts = << >> THEN << >> ELSE Head(texts) \o << NL >> \o ConcatNL(Tail(texts))

Contains(s, pat) ==
    \E k \in 1..(Len(s) - Len(pat) + 1) : SubSeq(s, k, k + Len(pat) - 1) = pat

FileLines == SplitLines(uploaded_file[1])

\* the segments of the run that stored translated_text
CachedSegments ==
    JoinAll(SplitResult(cached_from[1].file, cached_from[1].num_parts))

\* every call of the run was answered with the segment text itself
EchoRun == \A j \in 1..Len(log) : log[j].ok /\ log[j].content = log[j].text

\* C1: for num_parts >= 1 process_text_file returns exactly num_parts
\* segments; segment i holds floor(total / num_parts) + 1 lines if
\* i < total mod num_parts and floor(total / num_parts) lines otherwise, so
\* the lengths differ by at most one and the longer segments come first.
C1_SegmentSizes ==
    (pc = "returned" /\ num_parts >= 1) =>
        LET total == Len(FileLines)
        IN  /\ Len(result) = num_parts
            /\ Len(split_texts) = num_parts
            /\ \A i \in 0..(num_parts - 1) :
                   Len(result[i + 1]) =
                       (total \div num_parts)
                           + (IF i < total % num_parts THEN 1 ELSE 0)
            /\ \A i, j \in 1..num_parts :
                   i < j => /\ Len(result[i]) >= Len(result[j])
                            /\ Len(result[i]) - Len(result[j]) <= 1
            /\ (total = 0 => \A i \in 1..num_parts : split_texts[i] = << >>)

C1_Witness ==
    /\ pc = "returned"
    /\ num_parts = 3
    /\ Len(FileLines) = 2
    /\ Len(result) = 3
    /\ Len(result[1]) = 1
    /\ Len(result[3]) = 0

\* C2: for num_parts >= 1 the segments are contiguous line ranges in the
\* original order: their line counts sum to total_lines and concatenating
\* their lines in index order gives back the line list of the file.
C2_Reassembly ==
    (pc = "returned" /\ num_parts >= 1) =>
        /\ SumLen(result) = Len(FileLines)
        /\ Flatten(result) = FileLines

C2_Witness ==
    /\ pc = "returned"
    /\ num_parts = 2
    /\ FileLines = << << "a" >>, << "b" >>, << >> >>
    /\ result = << << << "a" >>, << "b" >> >>, << << >> >> >>

C4_FailureIsFatal ==
    \A j \in 1..Len(log) :
        ~log[j].ok =>
            /\ j = Len(log)
            /\ pc = "idle"
            /\ translated_text = None
            /\ download = None
            /\ \A i \in 1..Len(log) : log[i].seg = i - 1

C4_Witness ==
    /\ Len(log) = 2
    /\ ~log[2].ok
    /\ error = "ExternalServiceError"
    /\ Len(split_texts) = 3
    /\ translated # << >>
    /\ translated_text = None
    /\ download = None

\* C5: once translated_text is stored, a step that keeps the uploaded file
\* calls the completion service no more and keeps translated_text.
C5_NoCallAfterCompletion ==
    [][(translated_text # None /\ uploaded_file' = uploaded_file) =>
           /\ log' = log
           /\ translated_text' = translated_text
           /\ pc' = "idle"]_vars

\* a run of main after the one that stored the result, with the same file
C5_Witness ==
    /\ translated_text # None
    /\ pc = "idle"
    /\ download = None
    /\ uploaded_file = Some(cached_from[1].file)
    /\ Len(log) = 2

\* C6: after a run of main with a file and the key, a stored translation
\* is the one of the current file, num_parts and model.
C6_CacheMatchesInput ==
    (pc = "idle" /\ api_key # "" /\ uploaded_file # None
        /\ translated_text # None) =>
        cached_from = Some(WidgetValues(uploaded_file[1], num_parts, llm_model))

\* C7: after a run of main with a file, the key and a stored translation,
\* the page offers the UTF-8 encoding of the stored translation.
C7_DownloadOffered ==
    (pc = "idle" /\ api_key # "" /\ uploaded_file # None
        /\ translated_text # None) =>
        download = Some(Utf8Encode(translated_text[1]))

\* at most one leading fence-plus-newline and one trailing newline-plus-fence
StripEnds(r) ==
    LET a == IF Len(r) >= 4 /\ SubSeq(r, 1, 4) = FENCE_OPEN
             THEN SubSeq(r, 5, Len(r)) ELSE r
    IN  IF Len(a) >= 4 /\ SubSeq(a, Len(a) - 3, Len(a)) = FENCE_CLOSE
        THEN SubSeq(a, 1, Len(a) - 4) ELSE a

\* the first occurrence of old only
RECURSIVE RemoveFirst(_, _)
RemoveFirst(s, old) ==
    IF Len(s) < Len(old) THEN s
    ELSE IF SubSeq(s, 1, Len(old)) = old
         THEN SubSeq(s, Len(old) + 1, Len(s))
         ELSE << Head(s) >> \o RemoveFirst(Tail(s), old)

\* C8: the cleaned response is the raw response without at most one
\* occurrence of each fence substring (the leading and the trailing one, or
\* the first one of each); any further occurrence is kept.
C8_StripsAtMostOnce ==
    (Len(log) = 1 /\ log[1].ok) =>
        \/ translated = StripEnds(log[1].content) \o << NL >>
        \/ translated =
              RemoveFirst(RemoveFirst(log[1].content, FENCE_OPEN), FENCE_CLOSE)
                  \o << NL >>

\* C9: process_text_file called with num_parts <= 0 raises and returns no
\* segment list.
C9_RejectsNonPositive ==
    (pc # "call" /\ num_parts <= 0) => (pc = "raised" /\ error # "")

\* C10: during and after a run of get_gpt_response the service has been
\* called once for each of the segments 0..k-1 in this order (and once more,
\* for segment k, if that call failed), the accumulator is the k cleaned
\* results, each followed by a newline, and a completed run has made one
\* call per segment.
C10_LoopInvariant ==
    /\ \A j \in 1..Len(log) : log[j].seg = j - 1
    /\ \A j \in 1..idx : j <= Len(log) /\ log[j].ok
    /\ Len(log) \in {idx, idx + 1}
    /\ translated = ConcatNL([j \in 1..idx |-> Clean(log[j].content)])
    /\ pc = "translating" =>
           /\ Len(log) = idx
           /\ idx <= Len(split_texts)
           /\ \A j \in 1..idx : log[j].text = split_texts[j]
    /\ translated_text # None =>
           /\ Len(log) = Len(CachedSegments)
           /\ idx = Len(log)
           /\ translated_text[1] = translated

C10_Witness ==
    /\ pc = "translating"
    /\ idx = 2
    /\ Len(split_texts) = 3
    /\ translated # << >>

====
